---------------------------- MODULE Spec2Model ----------------------------
(***************************************************************************)
(* AskBetter question reviewer: the command-line front end                 *)
(* (askBetterAgentCLI.py), the Streamlit front end (askBetterAgentST.py),  *)
(* the QuestionReview schema both declare, and the pii_scan tool.          *)
(*                                                                         *)
(* A string is a sequence of one-character strings.  A regular expression  *)
(* is a tree of records; Ends computes, as a backtracking matcher does,    *)
(* every position at which a match that starts in a given set of           *)
(* positions can end, so re.search(r, s) is "some start has an end".       *)
(***************************************************************************)
EXTENDS Integers, Sequences, FiniteSets, TLC

VARIABLES
    mode,           \* "cli" (askBetterAgentCLI.py) or "ui" (askBetterAgentST.py)
    credential,     \* whether OPENAI_API_KEY is set in the environment / secrets
    pc,             \* where the script is: "start" | "config_failed" | "prompt" |
                    \*   "exited" | "idle" | "warned" | "awaiting" | "done" | "failed"
    argv,           \* cli: " ".join(sys.argv[1:])
    line,           \* cli: what input() returned, <<l>>, or <<>> when it was not called
    user_q,         \* the question the front end holds
    inputRead,      \* whether the script has read a question (argv, input(), text_area)
    clientCreated,  \* whether set_default_openai_client(AsyncOpenAI(...)) has run
    requests,       \* generation requests (Runner.run calls) issued by this script run
    bpc,            \* the request: "idle" | "thinking" | "scanning" | "final" | "error"
    scanArg,        \* <<t>> while a pii_scan(t) tool call is running, else <<>>
    toolResults,    \* the lists the tool calls of this request returned
    errors,         \* the fields of the rejected candidate that failed validation
    final_output,   \* result.final_output, <<r>>, or <<>> while there is none
    out,            \* the record the front end shows or prints, <<r>>, or <<>>
    exitCode,       \* cli: <<n>> once the process has ended, else <<>>
    warning,        \* ui: whether st.warning("Please enter a question.") is shown
    text,           \* scanner harness: the argument of pii_scan
    scanned         \* scanner harness: <<pii_scan(text)>>, or <<>> before the call

vars == <<mode, credential, pc, argv, line, user_q, inputRead, clientCreated, requests,
          bpc, scanArg, toolResults, errors, final_output, out, exitCode, warning,
          text, scanned>>
progVars == <<mode, credential, pc, argv, line, user_q, inputRead, clientCreated,
              requests, bpc, scanArg, toolResults, errors, final_output, out, exitCode,
              warning>>
frontVars == <<mode, credential, pc, argv, line, user_q, inputRead, clientCreated,
               requests, out, exitCode, warning>>

----------------------------------------------------------------------------
(* Characters *)

Letters ==
    {"a", "b", "c", "d", "e", "f", "g", "h", "i", "j", "k", "l", "m",
     "n", "o", "p", "q", "r", "s", "t", "u", "v", "w", "x", "y", "z"}
Digits == {"0", "1", "2", "3", "4", "5", "6", "7", "8", "9"}
\* \w of Python's re on str: letters, digits and the underscore
WordChars == Letters \cup Digits \cup {"_"}
\* \s, as far as the model's alphabet goes
SpaceChars == {" "}
\* [\w\.-]
AddrChars == WordChars \cup {".", "-"}
\* [-.\s]
SepChars == {"-", "."} \cup SpaceChars

----------------------------------------------------------------------------
(* Regular expressions *)

Cls(S) == [t |-> "cls", set |-> S]
Chr(c) == Cls({c})
WB == [t |-> "wb"]
Cat(parts) == [t |-> "cat", parts |-> parts]
\* max = -1: no upper limit
Rep(r, min, max) == [t |-> "rep", r |-> r, min |-> min, max |-> max]
Opt(r) == Rep(r, 0, 1)

\* \b at position i (between s[i] and s[i+1]): exactly one side is a word character
WordBoundary(s, i) ==
    (i >= 1 /\ s[i] \in WordChars) # (i < Len(s) /\ s[i + 1] \in WordChars)

RECURSIVE Ends(_, _, _)
RECURSIVE EndsCat(_, _, _, _)
RECURSIVE EndsRep(_, _, _, _, _)

\* the positions where a match of r on s that starts at a position of S can end
Ends(r, s, S) ==
    IF S = {} THEN {}
    ELSE CASE r.t = "cls" -> {i + 1 : i \in {j \in S : j < Len(s) /\ s[j + 1] \in r.set}}
           [] r.t = "wb"  -> {i \in S : WordBoundary(s, i)}
           [] r.t = "cat" -> EndsCat(r.parts, 1, s, S)
           [] r.t = "rep" -> EndsRep(r, 0, s, S, {})

EndsCat(parts, k, s, S) ==
    IF k > Len(parts) THEN S
    ELSE EndsCat(parts, k + 1, s, Ends(parts[k], s, S))

\* S: the ends of exactly n repetitions; acc: the ends collected for counts min..n-1
EndsRep(r, n, s, S, acc) ==
    LET here == IF n >= r.min THEN acc \cup S ELSE acc
    IN  IF S = {} \/ n = r.max \/ (n >= r.min /\ S \subseteq acc) THEN here
        ELSE EndsRep(r, n + 1, s, Ends(r.r, s, S), here)

\* re.search(r, s) is not None
Search(r, s) == Ends(r, s, 0 .. Len(s)) # {}

----------------------------------------------------------------------------
(* pii_scan *)

\* \b[\w\.-]+@[\w\.-]+\.\w{2,}\b
EmailRe_alphaTld ==
    Cat(<<WB, Rep(Cls(AddrChars), 1, -1), Chr("@"), Rep(Cls(AddrChars), 1, -1),
          Chr("."), Rep(Cls(Letters), 2, -1), WB>>)
EmailRe ==
    Cat(<<WB, Rep(Cls(AddrChars), 1, -1), Chr("@"), Rep(Cls(AddrChars), 1, -1),
          Chr("."), Rep(Cls(WordChars), 2, -1), WB>>)

\* \b(?:\+?\d{1,3}[-.\s]?)?(?:\(?\d{3}\)?[-.\s]?)?\d{3}[-.\s]?\d{4}\b
PhoneRe ==
    Cat(<<WB,
          Opt(Cat(<<Opt(Chr("+")), Rep(Cls(Digits), 1, 3), Opt(Cls(SepChars))>>)),
          Opt(Cat(<<Opt(Chr("(")), Rep(Cls(Digits), 3, 3), Opt(Chr(")")),
                    Opt(Cls(SepChars))>>)),
          Rep(Cls(Digits), 3, 3), Opt(Cls(SepChars)), Rep(Cls(Digits), 4, 4), WB>>)

\* \b(?:\d[ -]*?){13,16}\b
CardRe ==
    Cat(<<WB, Rep(Cat(<<Cls(Digits), Rep(Cls({" ", "-"}), 0, -1)>>), 13, 16), WB>>)

pii_scan(s) ==
    (IF Search(EmailRe, s) THEN <<"email">> ELSE <<>>)
    \o (IF Search(PhoneRe, s) THEN <<"phone">> ELSE <<>>)
    \o (IF Search(CardRe, s) THEN <<"card-ish">> ELSE <<>>)

----------------------------------------------------------------------------
(* Strings *)

RECURSIVE lstrip(_)
lstrip(s) == IF s # <<>> /\ Head(s) \in SpaceChars THEN lstrip(Tail(s)) ELSE s

RECURSIVE rstrip(_)
rstrip(s) ==
    IF s # <<>> /\ s[Len(s)] \in SpaceChars THEN rstrip(SubSeq(s, 1, Len(s) - 1)) ELSE s

\* str.strip()
strip(s) == rstrip(lstrip(s))

\* a list of n entries
Entries(n) == [i \in 1 .. n |-> "item"]

----------------------------------------------------------------------------
(* The QuestionReview schema *)

Domains == {"coding", "data", "business", "other"}
Types == {"how-to", "debug", "design", "fact", "other"}
ScoreFields == {"clarity", "specificity", "answerability", "safety"}
ScoreMin == 0
ScoreMax == 10
RewriteMax == 280

\* Field(ge=0, le=10)
ScoreOk_noUpper(v) == v >= ScoreMin
ScoreOk(v) == v >= ScoreMin /\ v <= ScoreMax

\* Field(max_length=280); a rewrite is modelled by its length
RewriteOk(n) == n <= RewriteMax

\* the locations pydantic reports when it validates candidate c against QuestionReview;
\* original_question, missing_info, assumptions, followups and flags are typed
\* str / list[str] with no further constraint
ValidationErrors(c) ==
    {<<"scores", f>> : f \in {g \in ScoreFields : ~ScoreOk(c.scores[g])}}
    \cup (IF c.classification.domain \in Domains THEN {} ELSE {<<"classification", "domain">>})
    \cup (IF c.classification.type \in Types THEN {} ELSE {<<"classification", "type">>})
    \cup (IF RewriteOk(c.rewrites.minimal) THEN {} ELSE {<<"rewrites", "minimal">>})
    \cup (IF RewriteOk(c.rewrites.ideal) THEN {} ELSE {<<"rewrites", "ideal">>})

----------------------------------------------------------------------------
(* Inputs *)

\* the questions a user types: nothing, a blank, a word, a padded word, an address,
\* a telephone number
InputTexts ==
    {<<>>, <<" ">>, <<"q">>, <<" ", "q", " ">>, <<"a", "@", "b", ".", "c", "c">>,
     <<"5", "5", "5", "-", "1", "2", "3", "4">>}

\* a restatement of the question by the model
Paraphrase == <<"z">>

\* what the model may put in original_question: the input, the input trimmed or
\* padded, a restatement
EchoChoices(q) == {q, strip(q), <<" ">> \o q, Paraphrase}

\* list sizes the instructions ask for ("max 6", "max 6", "max 5")
MaxMissing == 6
MaxAssumptions == 6
MaxFollowups == 5

\* the scores the model may give: every field at the top of the range, or one field
\* moved to the bottom of the range or just outside it on either side
ScoreChoices == {ScoreMin - 1, ScoreMin, ScoreMax, ScoreMax + 1}
ScoreVectors ==
    {[[g \in ScoreFields |-> ScoreMax] EXCEPT ![f] = v] :
        f \in ScoreFields, v \in ScoreChoices}

\* the sizes of missing_info, assumptions and followups the model may give: what the
\* instructions ask for, or one of the lists one entry longer
ListSizes ==
    {<<MaxMissing, MaxAssumptions, MaxFollowups>>,
     <<MaxMissing + 1, MaxAssumptions, MaxFollowups>>,
     <<MaxMissing, MaxAssumptions + 1, MaxFollowups>>,
     <<MaxMissing, MaxAssumptions, MaxFollowups + 1>>}

\* classification and rewrites: conforming, or with one field off the schema
RestChoices ==
    LET ok == [classification |-> [domain |-> "coding", type |-> "how-to"],
               rewrites |-> [minimal |-> RewriteMax, ideal |-> RewriteMax]]
    IN  {ok,
         [ok EXCEPT !.classification.domain = "cooking"],
         [ok EXCEPT !.classification.type = "rant"],
         [ok EXCEPT !.rewrites.minimal = RewriteMax + 1],
         [ok EXCEPT !.rewrites.ideal = RewriteMax + 1]}

\* what the model may put in flags: nothing, its own judgement, a tag it made up, a
\* tag the scanner would give without having called it, or a tool result copied
\* (with or without a judgement of its own)
FlagChoices(results) ==
    {<<>>, <<"vague">>, <<"email">>, <<"urgent">>}
    \cup results \cup {r \o <<"unsafe">> : r \in results}

----------------------------------------------------------------------------
(* The front ends *)

\* `if not api_key` / `if not OPENAI_API_KEY`
ApiKeySet_ignored == TRUE
ApiKeySet == credential

\* `if out.original_question.strip() != user_question.strip(): out = out.model_copy(...)`
EnforceGroundTruth_never(r, q) == r
EnforceGroundTruth_untrimmed(r, q) ==
    IF r.original_question # q THEN [r EXCEPT !.original_question = q] ELSE r
EnforceGroundTruth(r, q) ==
    IF strip(r.original_question) # strip(q)
    THEN [r EXCEPT !.original_question = q]
    ELSE r

\* `if not user_q` after .strip() (cli), `if not user_q.strip()` (ui)
Blank_untrimmed(s) == s = <<>>
Blank(s) == strip(s) = <<>>

\* Runner.run(agent, user_q) is called: one generation request
StartRun ==
    /\ requests' = requests + 1
    /\ bpc' = "thinking"
    /\ scanArg' = <<>>
    /\ toolResults' = {}
    /\ errors' = {}
    /\ final_output' = <<>>

NoRun == UNCHANGED <<bpc, scanArg, toolResults, errors, final_output>>

\* a fresh run of the script holds nothing of the request of the run before
ForgetRun ==
    /\ bpc' = "idle"
    /\ scanArg' = <<>>
    /\ toolResults' = {}
    /\ errors' = {}
    /\ final_output' = <<>>

\* askBetterAgentCLI.py from its first line to input() or to Runner.run
CliStart ==
    /\ mode = "cli"
    /\ pc = "start"
    /\ UNCHANGED <<mode, credential, argv, line, out, warning, text, scanned>>
    /\ IF ~ApiKeySet
       THEN /\ pc' = "config_failed"
            /\ exitCode' = <<1>>
            /\ UNCHANGED <<user_q, inputRead, clientCreated, requests>>
            /\ NoRun
       ELSE /\ clientCreated' = TRUE
            /\ inputRead' = TRUE
            /\ user_q' = strip(argv)
            /\ UNCHANGED exitCode
            /\ IF user_q' = <<>>
               THEN pc' = "prompt" /\ UNCHANGED requests /\ NoRun
               ELSE pc' = "awaiting" /\ StartRun

\* input("Enter your question: ") returns l
CliPrompt(l) ==
    /\ mode = "cli"
    /\ pc = "prompt"
    /\ line' = <<l>>
    /\ user_q' = strip(l)
    /\ UNCHANGED <<mode, credential, argv, inputRead, clientCreated, out, warning,
                   text, scanned>>
    /\ IF user_q' = <<>>
       THEN pc' = "exited" /\ exitCode' = <<1>> /\ UNCHANGED requests /\ NoRun
       ELSE pc' = "awaiting" /\ UNCHANGED exitCode /\ StartRun

\* one run of the Streamlit script, top to bottom or to st.stop() or to Runner.run,
\* with t in the text area and run_btn pressed or not
UiScript(t, run_btn) ==
    /\ mode = "ui"
    /\ pc \in {"start", "config_failed", "idle", "warned", "done", "failed"}
    /\ UNCHANGED <<mode, credential, argv, line, exitCode, text, scanned>>
    /\ out' = <<>>
    /\ IF ~ApiKeySet
       THEN /\ pc' = "config_failed"
            /\ warning' = FALSE
            /\ requests' = 0
            /\ UNCHANGED <<user_q, inputRead, clientCreated>>
            /\ ForgetRun
       ELSE /\ clientCreated' = TRUE
            /\ inputRead' = TRUE
            /\ user_q' = t
            /\ IF ~run_btn
               THEN pc' = "idle" /\ warning' = FALSE /\ requests' = 0 /\ ForgetRun
               ELSE IF Blank(t)
               THEN pc' = "warned" /\ warning' = TRUE /\ requests' = 0 /\ ForgetRun
               ELSE /\ pc' = "awaiting"
                    /\ warning' = FALSE
                    /\ requests' = 1
                    /\ bpc' = "thinking"
                    /\ scanArg' = <<>>
                    /\ toolResults' = {}
                    /\ errors' = {}
                    /\ final_output' = <<>>

\* `await Runner.run(...)` returns: read final_output, enforce ground truth, show it
Resume ==
    /\ pc = "awaiting"
    /\ bpc = "final"
    /\ out' = <<EnforceGroundTruth(final_output[1], user_q)>>
    /\ pc' = "done"
    /\ exitCode' = IF mode = "cli" THEN <<0>> ELSE exitCode
    /\ UNCHANGED <<mode, credential, argv, line, user_q, inputRead, clientCreated,
                   requests, warning, text, scanned>>
    /\ NoRun

\* `await Runner.run(...)` raises: nothing catches it
Raise ==
    /\ pc = "awaiting"
    /\ bpc = "error"
    /\ pc' = "failed"
    /\ exitCode' = IF mode = "cli" THEN <<1>> ELSE exitCode
    /\ UNCHANGED <<mode, credential, argv, line, user_q, inputRead, clientCreated,
                   requests, out, warning, text, scanned>>
    /\ NoRun

----------------------------------------------------------------------------
(* The generation request: the agent with tools=[pii_scan], output_type=QuestionReview *)

\* the model asks for pii_scan(text=t)
ToolCall(t) ==
    /\ bpc = "thinking"
    /\ bpc' = "scanning"
    /\ scanArg' = <<t>>
    /\ UNCHANGED <<toolResults, errors, final_output, text, scanned>>
    /\ UNCHANGED frontVars

\* pii_scan returns and its result goes back to the model
ToolReturn ==
    /\ bpc = "scanning"
    /\ bpc' = "thinking"
    /\ toolResults' = toolResults \cup {pii_scan(scanArg[1])}
    /\ scanArg' = <<>>
    /\ UNCHANGED <<errors, final_output, text, scanned>>
    /\ UNCHANGED frontVars

\* pii_scan is a plain (synchronous) function tool: the request goes on, and the
\* model can give its final answer, only once the call has returned
CanFinalize_early == bpc \in {"thinking", "scanning"}
CanFinalize == bpc = "thinking"

\* the model gives candidate c as its final answer; it is validated against output_type
Finalize(c) ==
    /\ CanFinalize
    /\ errors' = ValidationErrors(c)
    /\ IF errors' = {}
       THEN bpc' = "final" /\ final_output' = <<c>>
       ELSE bpc' = "error" /\ UNCHANGED final_output
    /\ UNCHANGED <<scanArg, toolResults, text, scanned>>
    /\ UNCHANGED frontVars

\* the request to the model times out (timeout=120.0) or the network fails
RequestFails ==
    /\ bpc = "thinking"
    /\ bpc' = "error"
    /\ UNCHANGED <<scanArg, toolResults, errors, final_output, text, scanned>>
    /\ UNCHANGED frontVars

Backend ==
    \/ \E t \in {user_q, Paraphrase} : ToolCall(t)
    \/ ToolReturn
    \/ \E oq \in EchoChoices(user_q), n \in ListSizes,
          fl \in FlagChoices(toolResults), rest \in RestChoices, s \in ScoreVectors :
            Finalize([original_question |-> oq,
                      missing_info |-> Entries(n[1]),
                      assumptions |-> Entries(n[2]),
                      followups |-> Entries(n[3]),
                      flags |-> fl,
                      classification |-> rest.classification,
                      scores |-> s,
                      rewrites |-> rest.rewrites])
    \/ RequestFails

Init ==
    /\ mode \in {"cli", "ui"}
    /\ credential \in BOOLEAN
    /\ pc = "start"
    /\ argv \in (IF mode = "cli" THEN InputTexts ELSE {<<>>})
    /\ line = <<>>
    /\ user_q = <<>>
    /\ inputRead = FALSE
    /\ clientCreated = FALSE
    /\ requests = 0
    /\ bpc = "idle"
    /\ scanArg = <<>>
    /\ toolResults = {}
    /\ errors = {}
    /\ final_output = <<>>
    /\ out = <<>>
    /\ exitCode = <<>>
    /\ warning = FALSE
    /\ text = <<>>
    /\ scanned = <<>>

Next ==
    \/ CliStart
    \/ \E l \in InputTexts : CliPrompt(l)
    \/ \E t \in InputTexts, run_btn \in BOOLEAN : UiScript(t, run_btn)
    \/ Resume
    \/ Raise
    \/ Backend

Spec == Init /\ [][Next]_vars

----------------------------------------------------------------------------
(* The scanner on its own: pii_scan applied to every short text and to some long ones *)

MaxLen == 6
ScanAlphabet == {"a", "1", ".", "-", "@", " "}

\* "call 555-123-4567", "card 4111 1111 1111 1111", "a@b.cc 555-1234",
\* "4111-1111-1111-1111 q@q.qq", "a_b@c.q_", "_@_._"
SampleTexts ==
    {<<"a", "_", "b", "@", "c", ".", "q", "_">>, <<"_", "@", "_", ".", "_">>} \cup
    {<<"c", "a", "l", "l", " ", "5", "5", "5", "-", "1", "2", "3", "-", "4", "5", "6", "7">>,
     <<"c", "a", "r", "d", " ", "4", "1", "1", "1", " ", "1", "1", "1", "1", " ",
       "1", "1", "1", "1", " ", "1", "1", "1", "1">>,
     <<"a", "@", "b", ".", "c", "c", " ", "5", "5", "5", "-", "1", "2", "3", "4">>,
     <<"4", "1", "1", "1", "-", "1", "1", "1", "1", "-", "1", "1", "1", "1", "-",
       "1", "1", "1", "1", " ", "q", "@", "q", ".", "q", "q">>}

ScanTexts == UNION {[1 .. k -> ScanAlphabet] : k \in 0 .. MaxLen} \cup SampleTexts

InitScan ==
    /\ mode = "cli"
    /\ credential = TRUE
    /\ pc = "start"
    /\ argv = <<>>
    /\ line = <<>>
    /\ user_q = <<>>
    /\ inputRead = FALSE
    /\ clientCreated = FALSE
    /\ requests = 0
    /\ bpc = "idle"
    /\ scanArg = <<>>
    /\ toolResults = {}
    /\ errors = {}
    /\ final_output = <<>>
    /\ out = <<>>
    /\ exitCode = <<>>
    /\ warning = FALSE
    /\ text \in ScanTexts
    /\ scanned = <<>>

\* pii_scan(text) is called and returns
ScanCall ==
    /\ scanned = <<>>
    /\ scanned' = <<pii_scan(text)>>
    /\ UNCHANGED text
    /\ UNCHANGED progVars

NextScan == ScanCall

SpecScan == InitScan /\ [][NextScan]_vars

----------------------------------------------------------------------------
(* Properties of the scanner *)

Range(f) == {f[i] : i \in DOMAIN f}

\* s[i..j] is not empty and all its characters are in S
RunOf(s, i, j, S) == i <= j /\ \A n \in i .. j : s[n] \in S

\* s holds local@domain.tld at i..j, the @ at k and the last dot at m, with the tld
\* drawn from TldChars
AddressAt(s, i, k, m, j, TldChars) ==
    /\ s[k] = "@"
    /\ s[m] = "."
    /\ j >= m + 2
    /\ RunOf(s, i, k - 1, AddrChars)
    /\ RunOf(s, k + 1, m - 1, AddrChars)
    /\ RunOf(s, m + 1, j, TldChars)

\* the shape as the specification words it: an alphabetic tld
HasAlphabeticAddress(s) ==
    \E k \in 2 .. Len(s) : \E m \in k + 2 .. Len(s) :
        \E i \in 1 .. k - 1, j \in m + 2 .. Len(s) : AddressAt(s, i, k, m, j, Letters)

\* the shape the pattern finds: a tld of word characters, and a local part that
\* holds a word character (the match has to start at a word boundary)
HasWordAddress(s) ==
    \E k \in 2 .. Len(s) : \E m \in k + 2 .. Len(s) :
        \E i \in 1 .. k - 1, j \in m + 2 .. Len(s) :
            /\ AddressAt(s, i, k, m, j, WordChars)
            /\ \E n \in i .. k - 1 : s[n] \in WordChars

\* C10 as stated: pii_scan tags a text email exactly when it holds
\* local-part@domain.tld with an alphabetic tld of two or more characters.
C10_EmailIffAlphabeticTld ==
    scanned # <<>> => ("email" \in Range(scanned[1]) <=> HasAlphabeticAddress(text))

\* C10 amended: pii_scan tags a text email exactly when it holds local-part@domain.tld
\* with local-part and domain of word/dot/hyphen characters, a word character in the
\* local part, and a tld of two or more word characters (letters, digits, underscore);
\* whatever the phone and card-ish rules find.
C10_EmailIffWordTld ==
    scanned # <<>> => ("email" \in Range(scanned[1]) <=> HasWordAddress(text))

\* a scanned text tagged email that holds no address with an alphabetic tld
C10_Witness ==
    /\ scanned # <<>>
    /\ "email" \in Range(scanned[1])
    /\ ~HasAlphabeticAddress(text)

----------------------------------------------------------------------------
(* Properties of the front ends *)

\* description of QuestionReview.flags
FlagVocabulary == {"email", "phone", "card-ish", "unsafe", "vague"}

AllSpaces(s) == \A i \in 1 .. Len(s) : s[i] \in SpaceChars

\* s without its leading and trailing whitespace
Core(s) ==
    LET solid == {i \in 1 .. Len(s) : s[i] \notin SpaceChars}
        first == CHOOSE i \in solid : \A j \in solid : i <= j
        last == CHOOSE i \in solid : \A j \in solid : j <= i
    IN  IF solid = {} THEN <<>> ELSE SubSeq(s, first, last)

Records == Range(final_output) \cup Range(out)

ScoreLocations == {<<"scores", f>> : f \in ScoreFields}

\* C1: whatever original_question the backend echoed, the record the front end ends
\* with has the caller's question up to leading and trailing whitespace.
C1_SameQuestionTrimmed ==
    pc = "done" => Core(out[1].original_question) = Core(user_q)

\* the backend echoed a restatement and the front end ended with the caller's question
C1_Witness ==
    /\ pc = "done"
    /\ final_output[1].original_question = Paraphrase
    /\ Core(user_q) # Paraphrase
    /\ out[1].original_question = user_q

\* C2 as stated: the final original_question is the caller's input character for
\* character, for every backend echo.
C2_ExactlyInput ==
    pc = "done" => out[1].original_question = user_q

\* C2 amended: when the backend's echo and the caller's input differ after trimming
\* both, the final original_question is the caller's input character for character;
\* when they agree after trimming, the backend's echo is kept as it is.
C2_InputUnlessSameTrimmed ==
    pc = "done" =>
        /\ Core(final_output[1].original_question) # Core(user_q)
              => out[1].original_question = user_q
        /\ Core(final_output[1].original_question) = Core(user_q)
              => out[1].original_question = final_output[1].original_question

\* the echo differed from the input in its whitespace only, and was kept
C2_Witness ==
    /\ pc = "done"
    /\ final_output[1].original_question # user_q
    /\ out[1].original_question = final_output[1].original_question

\* C3: every record has at most 6 missing_info, 6 assumptions and 5 followups entries.
C3_ListLimits ==
    \A r \in Records :
        /\ Len(r.missing_info) <= MaxMissing
        /\ Len(r.assumptions) <= MaxAssumptions
        /\ Len(r.followups) <= MaxFollowups

\* C4: every record has its four scores in 0..10, the front end shows the scores the
\* backend gave, and a candidate with a score outside 0..10 leaves no record at all.
C4_ScoresInRange ==
    /\ \A r \in Records : \A f \in ScoreFields : r.scores[f] \in ScoreMin .. ScoreMax
    /\ pc = "done" => out[1].scores = final_output[1].scores
    /\ errors \cap ScoreLocations # {} => Records = {} /\ bpc = "error"

\* a candidate whose only fault was its safety score was rejected and the run failed
C4_Witness ==
    /\ pc = "failed"
    /\ errors = {<<"scores", "safety">>}
    /\ Records = {}

\* C5: a question that is blank after trimming never leads to a generation request;
\* the command line (blank arguments and blank line) exits with a non-zero code and
\* the page stops with its warning.
C5_BlankNeverRequested ==
    /\ requests > 0 => ~AllSpaces(user_q)
    /\ (mode = "cli" /\ line # <<>> /\ AllSpaces(line[1]))
          => (AllSpaces(argv) /\ pc = "exited" /\ exitCode = <<1>>
              /\ requests = 0 /\ bpc = "idle")
    /\ (mode = "ui" /\ inputRead /\ AllSpaces(user_q))
          => (pc \in {"idle", "warned"} /\ requests = 0 /\ bpc = "idle")
    /\ pc = "warned" => (warning /\ AllSpaces(user_q))
    /\ pc \in {"awaiting", "done", "failed"} => requests = 1

\* blank arguments, then a blank line: the command line has exited
C5_Witness ==
    /\ mode = "cli"
    /\ argv = <<" ">>
    /\ line = << <<" ">> >>
    /\ pc = "exited"

\* C6: every tag pii_scan returns for the caller's question is in the final flags.
C6_ScannerTagsInFlags ==
    pc = "done" => Range(pii_scan(user_q)) \subseteq Range(out[1].flags)

\* C7: every flag of every record is one of email, phone, card-ish, unsafe, vague.
C7_FlagsInVocabulary ==
    \A r \in Records : Range(r.flags) \subseteq FlagVocabulary

\* C8: without a credential the script reads no question, creates no client and
\* issues no request, in its first run and in every later one.
C8_NoCredentialNoInput ==
    ~credential =>
        /\ pc \in {"start", "config_failed"}
        /\ ~inputRead
        /\ ~clientCreated
        /\ requests = 0
        /\ bpc = "idle"
        /\ user_q = <<>> /\ line = <<>>
        /\ (mode = "cli" /\ pc = "config_failed") => exitCode = <<1>>

\* the script has run without a credential and has stopped
C8_Witness ==
    /\ ~credential
    /\ pc = "config_failed"

============================================================================
